---- MODULE Spec2Model ----
(***************************************************************************)
(* Timesheet lifecycle of TeamConnect: the /api/timesheets route (create,  *)
(* update, delete) over the timesheets and trucks tables, together with    *)
(* the zod schemas that guard the route.  One action per HTTP request; a   *)
(* request that runs inside db.transaction is one atomic step.             *)
(***************************************************************************)
EXTENDS Integers, FiniteSets, Sequences, TLC

\* ---------------------------------------------------------------- bounds
MaxTimesheets == 2
MaxNow == 4
MaxOdo == 2

\* ------------------------------------------------------- values and users
\* SQL NULL / JSON null in a text column and in an integer column.
Null == "null"
NullInt == -9

\* c.get("user") is null when the request carries no session.
NoUser == "anon"
Drivers == {"d1", "d2"}
Admins == {"a1"}
Maintainers == {"m1"}
Users == Drivers \cup Admins \cup Maintainers
Actors == Users \cup {NoUser}

Role(u) ==
  IF u \in Drivers THEN "driver"
  ELSE IF u \in Admins THEN "admin"
  ELSE "maintenance"

TruckIds == {"t1", "t2"}
BillingRateIds == {"b1"}
TimesheetIds == 1..MaxTimesheets
Odo == 1..MaxOdo
ShiftSeconds == {1, 2}

\* new Date(seconds * 1000): the Date (in ms) the handler stores.
ToDate(sec) == sec * 1000

\* "Rejected by admin." placeholder of the admin branch.
DefaultRejectionReason == "Rejected by admin."

\* ------------------------------------------------------------------ state
VARIABLES trucks, timesheets, nextId, now, req, resp, before, tx

vars == <<trucks, timesheets, nextId, now, req, resp, before, tx>>
db == <<trucks, timesheets, nextId, now>>

\* Object spread / .set(payload): keys of upd override those of row.
Merge(row, upd) ==
  [k \in DOMAIN row \cup DOMAIN upd |-> IF k \in DOMAIN upd THEN upd[k] ELSE row[k]]

Has(body, k) == k \in DOMAIN body

EmptyBody == <<>>

\* Variant: the existence check is skipped.
TruckExistsUnchecked(id) == TRUE

\* tx.query.trucks.findFirst({ where: eq(trucks.id, id) })
TruckExists(id) == id \in DOMAIN trucks

\* tx.query.timesheets.findFirst({ where: eq(timesheets.id, id) })
TimesheetExists(id) == id \in DOMAIN timesheets

\* new Date() read by a handler: the current time as a Date (ms).
NewDate == ToDate(now)

Restrict(f, S) == [k \in DOMAIN f \cap S |-> f[k]]

\* A JavaScript truthiness test on a number-or-null value (x ? a : b).
Truthy(x) == x # NullInt /\ x # 0

\* --------------------------------------------------------------- schemas
\* timesheetCreateSchema: the field rules (required keys, int ranges).
CreateRequired ==
  {"truckId", "shiftStartDate", "shiftEndDate", "startOdometerReading", "endOdometerReading"}

CreateFieldsOk(body) ==
  /\ CreateRequired \subseteq DOMAIN body
  /\ body.truckId \in TruckIds
  /\ body.shiftStartDate > 0
  /\ body.shiftEndDate > 0
  /\ body.startOdometerReading >= 0
  /\ body.endOdometerReading > 0

\* first .refine of timesheetCreateSchema
CreateShiftRefine(body) ==
  IF ~Has(body, "shiftEndDate") THEN TRUE
  ELSE IF body.shiftEndDate = NullInt THEN TRUE
  ELSE body.shiftEndDate > body.shiftStartDate

\* Variant: the refinement compares with >= instead of >.
CreateOdoRefineAllowEqual(body) ==
  body.endOdometerReading >=
    (IF ~Has(body, "startOdometerReading") THEN -1
     ELSE IF body.startOdometerReading = NullInt THEN -1
     ELSE body.startOdometerReading)

\* second .refine of timesheetCreateSchema: end > (start ?? -1)
CreateOdoRefine(body) ==
  body.endOdometerReading >
    (IF ~Has(body, "startOdometerReading") THEN -1
     ELSE IF body.startOdometerReading = NullInt THEN -1
     ELSE body.startOdometerReading)

ValidCreate(body) ==
  CreateFieldsOk(body) /\ CreateShiftRefine(body) /\ CreateOdoRefine(body)

\* timesheetUpdateSchema: the field rules; every key is optional.
UpdateFieldsOk(body) ==
  /\ Has(body, "truckId") => body.truckId \in TruckIds
  /\ Has(body, "shiftStartDate") => body.shiftStartDate > 0
  /\ Has(body, "shiftEndDate") => body.shiftEndDate > 0
  /\ Has(body, "startOdometerReading") => body.startOdometerReading >= 0
  /\ Has(body, "endOdometerReading") => body.endOdometerReading > 0
  /\ Has(body, "status") => body.status \in {"pending", "approved", "rejected"}
  /\ Has(body, "totalBilledAmount") =>
       (body.totalBilledAmount = NullInt \/ body.totalBilledAmount >= 0)
  /\ Has(body, "approvedAt") => body.approvedAt = NullInt

\* first .refine of timesheetUpdateSchema
UpdateShiftRefine(body) ==
  IF ~Has(body, "shiftEndDate") \/ ~Has(body, "shiftStartDate") THEN TRUE
  ELSE IF body.shiftEndDate = NullInt THEN TRUE
  ELSE body.shiftEndDate > body.shiftStartDate

\* second .refine of timesheetUpdateSchema
UpdateOdoRefine(body) ==
  IF ~Has(body, "endOdometerReading") \/ ~Has(body, "startOdometerReading") THEN TRUE
  ELSE body.endOdometerReading > body.startOdometerReading

ValidUpdate(body) ==
  UpdateFieldsOk(body) /\ UpdateShiftRefine(body) /\ UpdateOdoRefine(body)

\* ------------------------------------------------------------- responses
Reply(code, error, row) == resp' = [code |-> code, error |-> error, row |-> row]

\* The exchange held in req/resp: none when the server awaits a request.
NoRequest == [kind |-> "none", actor |-> NoUser, id |-> 0, body |-> EmptyBody]
NoResponse == [code |-> 0, error |-> "", row |-> EmptyBody]
Idle == resp = NoResponse

\* History: the two tables as the request in req found them.
Snapshot == [trucks |-> trucks, timesheets |-> timesheets]
NoSnapshot == [trucks |-> <<>>, timesheets |-> <<>>]

\* The db.transaction in flight: its position, the request it serves, the
\* tables it started from and the tables as its own statements left them.
NoTx == [pc |-> "none"]

\* The response leaves the server; the next request can be taken.
Deliver ==
  /\ ~Idle
  /\ req' = NoRequest
  /\ resp' = NoResponse
  /\ before' = NoSnapshot
  /\ UNCHANGED <<db, tx>>

\* zValidator("json", schema) answers 400 before the handler runs.
ValidationError == "validation"

\* ------------------------------------------------- POST /api/timesheets
\* timesheetData of the create handler plus the columns' defaults.
NewTimesheet(actor, body) ==
  [ driverId |-> actor,
    truckId |-> body.truckId,
    shiftStartDate |-> ToDate(body.shiftStartDate),
    shiftEndDate |-> IF Truthy(body.shiftEndDate) THEN ToDate(body.shiftEndDate) ELSE NullInt,
    startOdometerReading |-> body.startOdometerReading,
    endOdometerReading |-> body.endOdometerReading,
    notes |-> IF Has(body, "notes") THEN body.notes ELSE Null,
    status |-> "pending",
    approvedBy |-> Null,
    approvedAt |-> NullInt,
    rejectionReason |-> Null,
    billingRateId |-> Null,
    totalBilledAmount |-> NullInt,
    createdAt |-> NewDate,
    updatedAt |-> NewDate ]

\* Variant: the reading is only ever raised (the alternative the handler's
\* comment weighs and rejects).
SetTruckOdometerIfHigher(tr, id, reading) ==
  IF id \in DOMAIN tr /\ tr[id].lastOdometerReading < reading
  THEN [tr EXCEPT ![id] = Merge(@, [lastOdometerReading |-> reading, updatedAt |-> NewDate])]
  ELSE tr

\* tx.update(trucks).set({ lastOdometerReading, updatedAt }).where(id)
SetTruckOdometer(tr, id, reading) ==
  IF id \in DOMAIN tr
  THEN [tr EXCEPT ![id] = Merge(@, [lastOdometerReading |-> reading, updatedAt |-> NewDate])]
  ELSE tr

\* Variant: any authenticated user may create (no role check).
CreateAllowedAnyRole(actor) == TRUE

\* user.role !== "driver" && user.role !== "admin" answers 403
CreateAllowed(actor) == Role(actor) = "driver" \/ Role(actor) = "admin"

CreateTimesheet(actor, body) ==
  /\ Idle
  /\ UNCHANGED tx
  /\ before' = Snapshot
  /\ req' = [kind |-> "POST", actor |-> actor, id |-> 0, body |-> body]
  /\ IF ~ValidCreate(body)
     THEN Reply(400, ValidationError, EmptyBody) /\ UNCHANGED db
     ELSE IF actor = NoUser
     THEN Reply(401, "Unauthorized", EmptyBody) /\ UNCHANGED db
     ELSE IF ~CreateAllowed(actor)
     THEN Reply(403, "Forbidden: Only drivers or admins can create timesheets", EmptyBody)
          /\ UNCHANGED db
     ELSE IF ~TruckExists(body.truckId)
     THEN Reply(400, "Invalid truckId: Truck not found", EmptyBody) /\ UNCHANGED db
     ELSE /\ nextId < MaxTimesheets
          /\ now < MaxNow
          /\ nextId' = nextId + 1
          /\ timesheets' = (nextId + 1 :> NewTimesheet(actor, body)) @@ timesheets
          /\ trucks' = SetTruckOdometer(trucks, body.truckId, body.endOdometerReading)
          /\ now' = now + 1
          /\ Reply(201, "", NewTimesheet(actor, body))

\* ------------------------------------------------ GET /api/timesheets
\* with: { driver: {id}, truck: {id}, approver: {id} }: the joined relations
\* (the driver relation is loaded for an admin only in the list).
WithRelations(row, withDriver) ==
  row @@ [truck |-> [id |-> row.truckId], approver |-> [id |-> row.approvedBy]]
      @@ (IF withDriver THEN [driver |-> [id |-> row.driverId]] ELSE EmptyBody)

\* orderBy: desc(timesheets.createdAt) over the selected rows
RECURSIVE NewestFirst(_, _, _)
NewestFirst(ts, ids, withDriver) ==
  IF ids = {} THEN <<>>
  ELSE LET i == CHOOSE i \in ids : \A j \in ids : ts[i].createdAt >= ts[j].createdAt
       IN <<WithRelations(ts[i], withDriver)>> \o NewestFirst(ts, ids \ {i}, withDriver)

\* Variant: the driver's query has no where clause.
ListedForAnyone(actor, row) == TRUE

\* admin: findMany without where; driver: where eq(timesheets.driverId, user.id)
ListedFor(actor, row) == Role(actor) = "admin" \/ row.driverId = actor

\* The response of GET / computed from the timesheets table ts.
ListResponse(actor, ts) ==
  IF actor = NoUser
  THEN [code |-> 401, error |-> "Unauthorized", row |-> EmptyBody]
  ELSE IF Role(actor) # "admin" /\ Role(actor) # "driver"
  THEN [code |-> 403, error |-> "Forbidden: Insufficient permissions", row |-> EmptyBody]
  ELSE [code |-> 200, error |-> "",
        row |-> NewestFirst(ts, {i \in DOMAIN ts : ListedFor(actor, ts[i])},
                            Role(actor) = "admin")]

ListTimesheets(actor) ==
  /\ Idle
  /\ UNCHANGED tx
  /\ before' = Snapshot
  /\ req' = [kind |-> "GET list", actor |-> actor, id |-> 0, body |-> EmptyBody]
  /\ resp' = ListResponse(actor, timesheets)
  /\ UNCHANGED db

\* -------------------------------------------- GET /api/timesheets/:id
\* The response of GET /:id computed from the timesheets table ts.
GetResponse(actor, id, ts) ==
  IF actor = NoUser
  THEN [code |-> 401, error |-> "Unauthorized", row |-> EmptyBody]
  ELSE IF id \notin DOMAIN ts
  THEN [code |-> 404, error |-> "Timesheet not found", row |-> EmptyBody]
  ELSE IF Role(actor) = "driver" /\ ts[id].driverId # actor
  THEN [code |-> 403, error |-> "Forbidden: You can only view your own timesheets",
        row |-> EmptyBody]
  ELSE IF Role(actor) # "admin" /\ Role(actor) # "driver"
  THEN [code |-> 403, error |-> "Forbidden: Insufficient permissions", row |-> EmptyBody]
  ELSE [code |-> 200, error |-> "", row |-> WithRelations(ts[id], TRUE)]

GetTimesheet(actor, id) ==
  /\ Idle
  /\ UNCHANGED tx
  /\ before' = Snapshot
  /\ req' = [kind |-> "GET", actor |-> actor, id |-> id, body |-> EmptyBody]
  /\ resp' = GetResponse(actor, id, timesheets)
  /\ UNCHANGED db

\* ---------------------------------------------- PATCH /api/timesheets/:id
\* shiftStartDate / shiftEndDate conversion shared by both role branches:
\* new Date(start * 1000); end ? new Date(end * 1000) : null.
DateUpdates(body) ==
  (IF Has(body, "shiftStartDate")
   THEN [shiftStartDate |-> ToDate(body.shiftStartDate)] ELSE EmptyBody)
  @@
  (IF Has(body, "shiftEndDate")
   THEN [shiftEndDate |-> IF Truthy(body.shiftEndDate) THEN ToDate(body.shiftEndDate) ELSE NullInt]
   ELSE EmptyBody)

\* Variant: the admin branch spreads the whole payload (driverId included).
AdminCopiedFieldsWithDriver ==
  {"truckId", "startOdometerReading", "endOdometerReading", "notes",
   "rejectionReason", "billingRateId", "totalBilledAmount", "driverId"}

AdminCopiedFields ==
  {"truckId", "startOdometerReading", "endOdometerReading", "notes",
   "rejectionReason", "billingRateId", "totalBilledAmount"}

\* Variant: approval leaves the rejection reason as the payload set it.
ApprovedUpdatesKeepReason(actor, body) ==
  [status |-> body.status, approvedBy |-> actor, approvedAt |-> NewDate]

\* status === "approved"
ApprovedUpdates(actor, body) ==
  [status |-> body.status, approvedBy |-> actor,
   approvedAt |-> NewDate, rejectionReason |-> Null]

\* Variant: a rejection without a reason stores null (no placeholder).
RejectedUpdatesNullDefault(body) ==
  [status |-> body.status, approvedBy |-> Null, approvedAt |-> NullInt,
   rejectionReason |-> IF Has(body, "rejectionReason") THEN body.rejectionReason ELSE Null]

\* status === "rejected": the reason is the payload's unless it is undefined
RejectedUpdates(body) ==
  [status |-> body.status, approvedBy |-> Null, approvedAt |-> NullInt,
   rejectionReason |-> IF Has(body, "rejectionReason")
                       THEN body.rejectionReason
                       ELSE DefaultRejectionReason]

\* Variant: reopening changes the status only.
PendingUpdatesKeepMetadata(body) == [status |-> body.status]

\* status === "pending"
PendingUpdates(body) ==
  [status |-> body.status, approvedBy |-> Null,
   approvedAt |-> NullInt, rejectionReason |-> Null]

\* if (status !== undefined) {...} else if (approvedAt is a number) {...}
AdminStatusUpdates(actor, body) ==
  IF Has(body, "status")
  THEN IF body.status = "approved" THEN ApprovedUpdates(actor, body)
       ELSE IF body.status = "rejected" THEN RejectedUpdates(body)
       ELSE IF body.status = "pending" THEN PendingUpdates(body)
       ELSE [status |-> body.status]
  ELSE IF Has(body, "approvedAt") /\ body.approvedAt # NullInt
  THEN [approvedAt |-> ToDate(body.approvedAt)]
  ELSE EmptyBody

\* updatePayload of the admin branch (later assignments win).
AdminUpdatePayload(actor, body) ==
  Merge(Merge(Restrict(body, AdminCopiedFields), DateUpdates(body)),
        AdminStatusUpdates(actor, body))

\* Variant: the driver branch also copies the payload's status.
DriverCopiedFieldsWithStatus ==
  {"startOdometerReading", "endOdometerReading", "notes", "truckId", "status"}

\* Variant: the driver branch copies what the admin branch copies.
DriverCopiedFieldsAsAdmin ==
  {"truckId", "startOdometerReading", "endOdometerReading", "notes",
   "rejectionReason", "billingRateId", "totalBilledAmount"}

DriverCopiedFields ==
  {"startOdometerReading", "endOdometerReading", "notes", "truckId"}

\* Variant: a driver's edit leaves the status alone.
DriverResetUpdatesNone(existing) == EmptyBody

\* a driver's edit of a rejected timesheet moves it back to pending
DriverResetUpdates(existing) ==
  IF existing.status = "rejected"
  THEN [status |-> "pending", rejectionReason |-> Null,
        approvedBy |-> Null, approvedAt |-> NullInt]
  ELSE EmptyBody

\* updatePayload of the driver branch.
DriverUpdatePayload(existing, body) ==
  Merge(Merge(Restrict(body, DriverCopiedFields), DateUpdates(body)),
        DriverResetUpdates(existing))

UpdatePayload(actor, existing, body) ==
  IF Role(actor) = "admin" THEN AdminUpdatePayload(actor, body)
  ELSE DriverUpdatePayload(existing, body)

\* Variant: the ownership test never fires.
NotOwnerIgnored(actor, existing) == FALSE

\* existingTimesheet.driverId !== user.id
NotOwner(actor, existing) == existing.driverId # actor

\* Variant: a driver may edit a timesheet in any status.
NotEditableByDriverNever(existing) == FALSE

\* existingTimesheet.status !== "pending" && ... !== "rejected"
NotEditableByDriver(existing) ==
  existing.status # "pending" /\ existing.status # "rejected"

\* Variant: the payload's truck is never looked up.
UnknownNewTruckIgnored(body) == FALSE

\* truckId !== undefined and tx.query.trucks.findFirst finds no such truck
UnknownNewTruck(body) == Has(body, "truckId") /\ ~TruckExists(body.truckId)

\* The Error thrown inside the transaction body when findFirst reads the
\* timesheet from the table ts, "" when none is thrown.
UpdateErrorFor(actor, ts, id, body) ==
  IF id \notin DOMAIN ts THEN "Timesheet not found"
  ELSE IF Role(actor) = "admin"
  THEN IF UnknownNewTruck(body)
       THEN "Invalid new truckId: Truck not found" ELSE ""
  ELSE IF Role(actor) = "driver"
  THEN IF NotOwner(actor, ts[id])
       THEN "Forbidden: You can only edit your own timesheets"
       ELSE IF NotEditableByDriver(ts[id])
       THEN "Forbidden: You can only edit pending or rejected timesheets"
       ELSE IF UnknownNewTruck(body)
       THEN "Invalid new truckId: Truck not found" ELSE ""
  ELSE "Forbidden: Insufficient permissions"

UpdateError(actor, id, body) == UpdateErrorFor(actor, timesheets, id, body)

ForbiddenMessages ==
  {"Forbidden: You can only edit your own timesheets",
   "Forbidden: You can only edit pending or rejected timesheets",
   "Forbidden: Insufficient permissions"}

InvalidMessages == {"Invalid new truckId: Truck not found"}

\* the catch block of the update handler
UpdateErrorCode(msg) ==
  IF msg \in ForbiddenMessages THEN 403
  ELSE IF msg \in InvalidMessages THEN 400
  ELSE IF msg = "Timesheet not found" THEN 404
  ELSE 500

\* billing_rate_id references billing_rates.id: the UPDATE fails otherwise.
ForeignKeysOk(payload) ==
  Has(payload, "billingRateId") =>
    (payload.billingRateId = Null \/ payload.billingRateId \in BillingRateIds)

\* Variant: the reading always goes to the timesheet's existing truck.
OdometerTruckExisting(payload, existing) == existing.truckId

\* The truck whose odometer follows an update that carries endOdometerReading:
\* the payload's truck, else the existing record's truck.
OdometerTruck(payload, existing) ==
  IF Has(payload, "truckId") THEN payload.truckId ELSE existing.truckId

UpdateTimesheet(actor, id, body) ==
  /\ Idle
  /\ UNCHANGED tx
  /\ before' = Snapshot
  /\ req' = [kind |-> "PATCH", actor |-> actor, id |-> id, body |-> body]
  /\ IF ~ValidUpdate(body)
     THEN Reply(400, ValidationError, EmptyBody) /\ UNCHANGED db
     ELSE IF actor = NoUser
     THEN Reply(401, "Unauthorized", EmptyBody) /\ UNCHANGED db
     ELSE IF UpdateError(actor, id, body) # ""
     THEN /\ Reply(UpdateErrorCode(UpdateError(actor, id, body)),
                   UpdateError(actor, id, body), EmptyBody)
          /\ UNCHANGED db
     ELSE LET existing == timesheets[id]
              payload == UpdatePayload(actor, existing, body)
              written == Merge(existing, Merge(payload, [updatedAt |-> NewDate]))
          IN IF DOMAIN payload = {}
             THEN Reply(200, "", existing) /\ UNCHANGED db
             ELSE IF ~ForeignKeysOk(payload)
             THEN Reply(500, "Failed to update timesheet", EmptyBody) /\ UNCHANGED db
             ELSE /\ now < MaxNow
                  /\ timesheets' = [timesheets EXCEPT ![id] = written]
                  /\ trucks' = IF Has(payload, "endOdometerReading")
                               THEN SetTruckOdometer(trucks, OdometerTruck(payload, existing),
                                                     payload.endOdometerReading)
                               ELSE trucks
                  /\ now' = now + 1
                  /\ UNCHANGED nextId
                  /\ Reply(200, "", written)

\* --------------------------------------------- DELETE /api/timesheets/:id
\* Variant: the delete puts the truck's reading back to the column default.
TrucksAfterDeleteReset(id) ==
  SetTruckOdometer(trucks, timesheets[id].truckId, 0)

\* The delete handler leaves the trucks table alone (the truck's
\* lastOdometerReading is not recalculated).
TrucksAfterDelete(id) == trucks

DeleteTimesheet(actor, id) ==
  /\ Idle
  /\ UNCHANGED tx
  /\ before' = Snapshot
  /\ req' = [kind |-> "DELETE", actor |-> actor, id |-> id, body |-> EmptyBody]
  /\ IF actor = NoUser
     THEN Reply(401, "Unauthorized", EmptyBody) /\ UNCHANGED db
     ELSE IF Role(actor) # "admin"
     THEN Reply(403, "Forbidden: Only admins can delete timesheets", EmptyBody)
          /\ UNCHANGED db
     ELSE IF ~TimesheetExists(id)
     THEN Reply(404, "Timesheet not found", EmptyBody) /\ UNCHANGED db
     ELSE /\ timesheets' = [i \in DOMAIN timesheets \ {id} |-> timesheets[i]]
          /\ trucks' = TrucksAfterDelete(id)
          /\ UNCHANGED <<nextId, now>>
          /\ Reply(200, "Timesheet deleted successfully", timesheets[id])

\* ------------------------------------------------ DELETE /api/trucks/:id
\* Variant: no timesheet is ever seen to reference the truck.
TruckReferencedNever(id) == FALSE

\* timesheets.truck_id references trucks.id with onDelete "restrict":
\* the DELETE statement fails while a timesheet names the truck.
TruckReferenced(id) == \E i \in DOMAIN timesheets : timesheets[i].truckId = id

DeleteTruck(actor, id) ==
  /\ Idle
  /\ UNCHANGED tx
  /\ before' = Snapshot
  /\ req' = [kind |-> "DELETE truck", actor |-> actor, id |-> id, body |-> EmptyBody]
  /\ IF actor = NoUser
     THEN Reply(401, "Unauthorized", EmptyBody) /\ UNCHANGED db
     ELSE IF Role(actor) # "admin"
     THEN Reply(403, "Forbidden", EmptyBody) /\ UNCHANGED db
     ELSE IF ~TruckExists(id)
     THEN Reply(404, "Truck not found", EmptyBody) /\ UNCHANGED db
     ELSE IF TruckReferenced(id)
     THEN /\ Reply(409, "Cannot delete truck: it is referenced by existing timesheets.",
                   EmptyBody)
          /\ UNCHANGED db
     ELSE /\ trucks' = [t \in DOMAIN trucks \ {id} |-> trucks[t]]
          /\ UNCHANGED <<timesheets, nextId, now>>
          /\ Reply(200, "Truck deleted successfully", trucks[id])

\* ----------------------------------------- db.transaction, step by step
\* Variant: every statement is stored in the tables as it is issued.
StoredAtOnce(committed, staged) == staged

\* The table other requests read after a statement of the transaction in
\* flight: the statement's effect stays inside the transaction until commit.
StoredInFlight(committed, staged) == committed

\* Variant: existingTimesheet is read before the transaction starts, so the
\* checks see the table as the request found it on arrival.
ExistingReadOnArrival(arrival, current) == arrival

\* tx.query.timesheets.findFirst runs inside the transaction body: the checks
\* see the table as it is when the body runs.
ExistingRead(arrival, current) == current

\* Variant: the UPDATE also requires the row's updatedAt to be the one the
\* request found on arrival (an optimistic lock).
UpdateMatchesVersion(arrival, stored, id) ==
  id \in DOMAIN arrival /\ arrival[id].updatedAt = stored[id].updatedAt

\* .where(eq(timesheets.id, timesheetId)): the UPDATE matches the row by its
\* id alone, whatever the row holds by now.
UpdateMatches(arrival, stored, id) == TRUE

\* The handler returns c.json(...) for the request the transaction served.
TxReply(code, error, row) ==
  /\ Idle
  /\ req' = tx.req
  /\ before' = tx.start
  /\ Reply(code, error, row)
  /\ tx' = NoTx

\* An Error leaves the transaction body: rollback and the catch block's answer.
Rollback(code, error) == TxReply(code, error, EmptyBody) /\ UNCHANGED db

\* await db.transaction(async (tx) => { ... starts for the request r.
Begin(r, pc) ==
  /\ tx' = [pc |-> pc, req |-> r, start |-> Snapshot, timesheets |-> timesheets,
            trucks |-> trucks, row |-> EmptyBody, payload |-> EmptyBody]
  /\ UNCHANGED <<db, req, resp, before>>

\* POST /: the checks before db.transaction, then the transaction starts.
BeginCreate(actor, body) ==
  /\ tx = NoTx
  /\ LET r == [kind |-> "POST", actor |-> actor, id |-> 0, body |-> body]
     IN IF ~ValidCreate(body) \/ actor = NoUser \/ ~CreateAllowed(actor)
        THEN /\ Idle
             /\ req' = r
             /\ before' = Snapshot
             /\ IF ~ValidCreate(body) THEN Reply(400, ValidationError, EmptyBody)
                ELSE IF actor = NoUser THEN Reply(401, "Unauthorized", EmptyBody)
                ELSE Reply(403, "Forbidden: Only drivers or admins can create timesheets",
                           EmptyBody)
             /\ UNCHANGED <<db, tx>>
        ELSE nextId < MaxTimesheets /\ now < MaxNow /\ Begin(r, "lookup")

\* PATCH /:id: the checks before db.transaction, then the transaction starts.
BeginUpdate(actor, id, body) ==
  /\ tx = NoTx
  /\ LET r == [kind |-> "PATCH", actor |-> actor, id |-> id, body |-> body]
     IN IF ~ValidUpdate(body) \/ actor = NoUser
        THEN /\ Idle
             /\ req' = r
             /\ before' = Snapshot
             /\ IF ~ValidUpdate(body) THEN Reply(400, ValidationError, EmptyBody)
                ELSE Reply(401, "Unauthorized", EmptyBody)
             /\ UNCHANGED <<db, tx>>
        ELSE now < MaxNow /\ Begin(r, "find")

\* POST /, step 1: tx.query.trucks.findFirst; a missing truck throws.  The
\* transaction works on the tables as its first statement finds them.
TxLookup ==
  /\ tx.pc = "lookup"
  /\ IF ~TruckExists(tx.req.body.truckId)
     THEN Rollback(400, "Invalid truckId: Truck not found")
     ELSE /\ tx' = [tx EXCEPT !.pc = "insert", !.timesheets = timesheets,
                              !.trucks = trucks]
          /\ UNCHANGED <<db, req, resp, before>>

\* POST /, step 3: tx.insert(timesheets).values(timesheetData).returning()
TxInsert ==
  /\ tx.pc = "insert"
  /\ LET row == NewTimesheet(tx.req.actor, tx.req.body)
         staged == (nextId + 1 :> row) @@ tx.timesheets
     IN /\ tx' = [tx EXCEPT !.pc = "truck", !.timesheets = staged, !.row = row,
                            !.payload = tx.req.body]
        /\ timesheets' = StoredInFlight(timesheets, staged)
        /\ UNCHANGED <<trucks, nextId, now, req, resp, before>>

\* PATCH /:id, the reads and checks of the transaction body: an Error rolls
\* back; an empty updatePayload returns the existing record.  The
\* transaction works on the tables as its first statement finds them.
TxFind ==
  /\ tx.pc = "find"
  /\ LET actor == tx.req.actor
         id == tx.req.id
         body == tx.req.body
         read == ExistingRead(tx.start.timesheets, timesheets)
     IN IF UpdateErrorFor(actor, read, id, body) # ""
        THEN Rollback(UpdateErrorCode(UpdateErrorFor(actor, read, id, body)),
                      UpdateErrorFor(actor, read, id, body))
        ELSE LET payload == UpdatePayload(actor, read[id], body)
             IN IF DOMAIN payload = {}
                THEN TxReply(200, "", read[id]) /\ UNCHANGED db
                ELSE /\ tx' = [tx EXCEPT !.pc = "write", !.payload = payload,
                                        !.timesheets = timesheets, !.trucks = trucks]
                     /\ UNCHANGED <<db, req, resp, before>>

\* PATCH /:id: tx.update(timesheets).set(updatePayload).where(id).returning();
\* an UPDATE that matches no row throws ("Update failed ...", answered 500).
TxWrite ==
  /\ tx.pc = "write"
  /\ ForeignKeysOk(tx.payload)
  /\ LET id == tx.req.id
         row == Merge(tx.timesheets[id], Merge(tx.payload, [updatedAt |-> NewDate]))
         staged == [tx.timesheets EXCEPT ![id] = row]
     IN IF ~UpdateMatches(tx.start.timesheets, tx.timesheets, id)
        THEN Rollback(500, "Failed to update timesheet")
        ELSE /\ tx' = [tx EXCEPT !.pc = IF Has(tx.payload, "endOdometerReading")
                                        THEN "truck" ELSE "commit",
                                 !.timesheets = staged, !.row = row]
             /\ timesheets' = StoredInFlight(timesheets, staged)
             /\ UNCHANGED <<trucks, nextId, now, req, resp, before>>

\* tx.update(trucks).set({ lastOdometerReading, updatedAt }) of either handler
TxTruck ==
  /\ tx.pc = "truck"
  /\ LET existing == tx.row
         staged == SetTruckOdometer(tx.trucks, OdometerTruck(tx.payload, existing),
                                    tx.payload.endOdometerReading)
     IN /\ tx' = [tx EXCEPT !.pc = "commit", !.trucks = staged]
        /\ trucks' = StoredInFlight(trucks, staged)
        /\ UNCHANGED <<timesheets, nextId, now, req, resp, before>>

\* A write statement of the transaction fails (constraint or database
\* error): the Error leaves the body, the catch block answers 500.
TxStatementFails ==
  /\ tx.pc \in {"insert", "write", "truck"}
  /\ Rollback(500, IF tx.req.kind = "POST" THEN "Failed to create timesheet"
                   ELSE "Failed to update timesheet")

\* The transaction body returns: commit, then c.json(result).
TxCommit ==
  /\ tx.pc = "commit"
  /\ timesheets' = tx.timesheets
  /\ trucks' = tx.trucks
  /\ nextId' = IF tx.req.kind = "POST" THEN nextId + 1 ELSE nextId
  /\ now' = now + 1
  /\ TxReply(IF tx.req.kind = "POST" THEN 201 ELSE 200, "", tx.row)

\* ------------------------------------------------------- request bodies
Field(k, V) == {k :> v : v \in V}
Optional(k, V) == {EmptyBody} \cup Field(k, V)

Statuses == {"pending", "approved", "rejected"}

\* JSON bodies sent to POST /api/timesheets: every truck and odometer pair.
CreateBodies ==
  { [truckId |-> t, shiftStartDate |-> 1, shiftEndDate |-> 2,
     startOdometerReading |-> so, endOdometerReading |-> eo] :
      t \in TruckIds, so \in Odo, eo \in Odo }

\* One shift (odometer 1 to 2) submitted for either truck.
ShiftBodies ==
  { b \in CreateBodies : b.startOdometerReading = 1 /\ b.endOdometerReading = 2 }

\* Bodies that carry the review fields (status and/or rejection reason).
StatusBodies ==
  { s @@ r : s \in Optional("status", Statuses),
             r \in Optional("rejectionReason", {Null, "r"}) }

\* Bodies that carry one field a driver may edit.
EditBodies ==
  Field("truckId", TruckIds) \cup Field("endOdometerReading", {MaxOdo})
  \cup Field("notes", {"n"})

\* JSON bodies sent to PATCH /api/timesheets/:id in the review workflow.
ReviewBodies == StatusBodies \cup EditBodies

\* ---------------------------------------------------------- specification
RegistryWith(r) == [t \in {"t1"} |-> [lastOdometerReading |-> r, updatedAt |-> 0]]

\* One registered truck with the column default reading; no timesheets yet.
Init ==
  /\ trucks = RegistryWith(0)
  /\ timesheets = <<>>
  /\ nextId = 0
  /\ now = 1
  /\ req = NoRequest
  /\ resp = NoResponse
  /\ before = NoSnapshot
  /\ tx = NoTx

Create(actors, bodies) ==
  \E actor \in actors, body \in bodies : CreateTimesheet(actor, body)
Update(actors, bodies) ==
  \E actor \in actors, id \in TimesheetIds, body \in bodies : UpdateTimesheet(actor, id, body)
Delete(actors) ==
  \E actor \in actors, id \in TimesheetIds : DeleteTimesheet(actor, id)

\* The review workflow: shifts are submitted, reviewed, edited and deleted.
Next == Create(Actors, ShiftBodies) \/ Update(Actors, ReviewBodies) \/ Delete(Actors) \/ Deliver

Spec == Init /\ [][Next]_vars

\* Bodies that correct the readings or the truck.
DataBodies ==
  Field("truckId", TruckIds) \cup Field("startOdometerReading", Odo)
  \cup Field("endOdometerReading", Odo)
  \cup { t @@ e : t \in Field("truckId", TruckIds), e \in Field("endOdometerReading", Odo) }
  \cup { a @@ e : a \in Field("startOdometerReading", Odo),
                  e \in Field("endOdometerReading", Odo) }

\* One registered truck whose reading is any value POST /api/trucks accepts
\* (null, the column default 0, or a reading); no timesheets yet.
InitOdometer ==
  /\ \E r \in {NullInt, 0, MaxOdo + 1} : trucks = RegistryWith(r)
  /\ timesheets = <<>>
  /\ nextId = 0
  /\ now = 1
  /\ req = NoRequest
  /\ resp = NoResponse
  /\ before = NoSnapshot
  /\ tx = NoTx

\* Odometer bookkeeping: shifts with every pair of readings, and corrections.
OdometerActors == {"d1", "a1"}

NextOdometer ==
  \/ Create(OdometerActors, CreateBodies)
  \/ Update(OdometerActors, DataBodies)
  \/ Delete(OdometerActors)
  \/ Deliver

SpecOdometer == InitOdometer /\ [][NextOdometer]_vars

\* Bodies that move a timesheet to a truck and/or correct its end reading.
FleetBodies ==
  Field("truckId", TruckIds) \cup Field("endOdometerReading", Odo)
  \cup { t @@ e : t \in Field("truckId", TruckIds), e \in Field("endOdometerReading", Odo) }

\* Both trucks registered with the column default reading; no timesheets yet.
InitFleet ==
  /\ trucks = [t \in TruckIds |-> [lastOdometerReading |-> 0, updatedAt |-> 0]]
  /\ timesheets = <<>>
  /\ nextId = 0
  /\ now = 1
  /\ req = NoRequest
  /\ resp = NoResponse
  /\ before = NoSnapshot
  /\ tx = NoTx

FleetActors == {"d1", "a1"}

RemoveTruck(actors) ==
  \E actor \in actors, id \in TruckIds : DeleteTruck(actor, id)

\* A fleet of two trucks: shifts are submitted, moved between trucks,
\* corrected and deleted, and trucks are removed from the registry.
NextFleet ==
  \/ Create(FleetActors, ShiftBodies)
  \/ Update(FleetActors, FleetBodies)
  \/ Delete(FleetActors)
  \/ RemoveTruck(FleetActors)
  \/ Deliver

SpecFleet == InitFleet /\ [][NextFleet]_vars

\* Bodies of a review seen by readers: a status, or a note.
ReadBodies == Field("status", Statuses) \cup Field("notes", {"n"})

List(actors) == \E actor \in actors : ListTimesheets(actor)
Get(actors) == \E actor \in actors, id \in TimesheetIds : GetTimesheet(actor, id)

\* Reading: shifts are submitted and reviewed while every actor lists and
\* fetches timesheets.
NextRead ==
  \/ Create(Actors, ShiftBodies)
  \/ Update(Actors, ReadBodies)
  \/ Delete(Actors)
  \/ List(Actors)
  \/ Get(Actors)
  \/ Deliver

SpecRead == Init /\ [][NextRead]_vars

\* Bodies that correct one field of a timesheet.
TxBodies ==
  Field("endOdometerReading", Odo) \cup Field("truckId", TruckIds)
  \cup Field("notes", {"n"})

TxActors == {"d1", "a1", "m1"}
TxReaders == {"d1"}

\* The two transactional handlers statement by statement, while a driver
\* lists and fetches timesheets between the statements.
NextTx ==
  \/ \E actor \in TxActors, body \in ShiftBodies : BeginCreate(actor, body)
  \/ \E actor \in TxActors, id \in TimesheetIds, body \in TxBodies :
       BeginUpdate(actor, id, body)
  \/ TxLookup
  \/ TxInsert
  \/ TxFind
  \/ TxWrite
  \/ TxTruck
  \/ TxStatementFails
  \/ TxCommit
  \/ List(TxReaders)
  \/ Get(TxReaders)
  \/ Deliver

SpecTx == Init /\ [][NextTx]_vars

\* ================================================================ claims
TablesUnchanged == timesheets = before.timesheets /\ trucks = before.trucks

\* C1: after every successful create (201) the referenced truck's
\* last-odometer-reading equals the end-odometer of the returned record,
\* whatever the truck's reading was before (null, lower or higher).
C1_CreateSetsTruckOdometer ==
  (req.kind = "POST" /\ resp.code = 201) =>
    /\ resp.row.truckId \in DOMAIN trucks
    /\ trucks[resp.row.truckId].lastOdometerReading = resp.row.endOdometerReading

\* A create succeeded on a truck whose previous reading was higher.
C1_Witness ==
  /\ req.kind = "POST" /\ resp.code = 201
  /\ before.trucks[resp.row.truckId].lastOdometerReading > resp.row.endOdometerReading
  /\ trucks[resp.row.truckId].lastOdometerReading = resp.row.endOdometerReading

\* C2: a create by a permitted actor with an accepted body whose truckId names
\* no existing truck returns 400 and leaves both tables as they were.
C2_CreateUnknownTruckRollsBack ==
  ( /\ req.kind = "POST"
    /\ req.actor # NoUser /\ Role(req.actor) \in {"driver", "admin"}
    /\ ValidCreate(req.body)
    /\ req.body.truckId \notin DOMAIN before.trucks )
  => (resp.code = 400 /\ TablesUnchanged)

\* A create for the unregistered truck was answered 400 while a timesheet exists.
C2_Witness ==
  /\ req.kind = "POST" /\ resp.code = 400
  /\ ValidCreate(req.body)
  /\ req.body.truckId \notin DOMAIN before.trucks
  /\ DOMAIN timesheets # {}
  /\ TablesUnchanged

\* C3: every create whose end-odometer is less than or equal to its
\* start-odometer is rejected (400) before any write: no timesheet is inserted
\* and no truck is modified.
C3_CreateEndNotAboveStartRejected ==
  ( /\ req.kind = "POST"
    /\ "startOdometerReading" \in DOMAIN req.body
    /\ req.body.endOdometerReading <= req.body.startOdometerReading )
  => (resp.code = 400 /\ TablesUnchanged)

\* A create with equal readings for a registered truck was rejected.
C3_Witness ==
  /\ req.kind = "POST" /\ resp.code = 400
  /\ req.body.endOdometerReading = req.body.startOdometerReading
  /\ req.body.truckId \in DOMAIN trucks
  /\ TablesUnchanged

\* C4: a create succeeds only for an authenticated driver or admin; an
\* authenticated actor with any other role gets 403 (for a body the schema
\* accepts), and no timesheet is inserted and no truck is modified.
C4_CreateOnlyDriverOrAdmin ==
  req.kind = "POST" =>
    /\ resp.code = 201 => (req.actor # NoUser /\ Role(req.actor) \in {"driver", "admin"})
    /\ (req.actor # NoUser /\ Role(req.actor) \notin {"driver", "admin"}) =>
         /\ ValidCreate(req.body) => resp.code = 403
         /\ TablesUnchanged

\* A maintenance user's otherwise acceptable create was answered 403.
C4_Witness ==
  /\ req.kind = "POST" /\ resp.code = 403
  /\ Role(req.actor) = "maintenance"
  /\ ValidCreate(req.body)
  /\ req.body.truckId \in DOMAIN trucks
  /\ TablesUnchanged

IsAdminUpdate ==
  /\ req.kind = "PATCH" /\ resp.code = 200
  /\ req.actor # NoUser /\ Role(req.actor) = "admin"

\* C5: in every reachable state every approved timesheet has an approver and
\* an approval timestamp and no rejection reason, and every rejected timesheet
\* has no approver, no approval timestamp and a rejection reason.
C5_StatusMetadataConsistent ==
  \A i \in DOMAIN timesheets :
    /\ timesheets[i].status = "approved" =>
         /\ timesheets[i].approvedBy # Null
         /\ timesheets[i].approvedAt # NullInt
         /\ timesheets[i].rejectionReason = Null
    /\ timesheets[i].status = "rejected" =>
         /\ timesheets[i].approvedBy = Null
         /\ timesheets[i].approvedAt = NullInt
         /\ timesheets[i].rejectionReason # Null

\* C6: an admin update with status=approved stores approver = the acting
\* admin, a non-null approval timestamp and a null
\* rejection reason, whatever the previous status and whatever rejection
\* reason the same payload supplies.
C6_ApproveStoresApprover ==
  (IsAdminUpdate /\ "status" \in DOMAIN req.body /\ req.body.status = "approved") =>
    /\ timesheets[req.id].status = "approved"
    /\ timesheets[req.id].approvedBy = req.actor
    /\ timesheets[req.id].approvedAt # NullInt
    /\ timesheets[req.id].rejectionReason = Null

\* An admin approved a rejected timesheet with a payload that also carries a
\* rejection reason.
C6_Witness ==
  /\ IsAdminUpdate
  /\ req.body = [status |-> "approved", rejectionReason |-> "r"]
  /\ before.timesheets[req.id].status = "rejected"
  /\ before.timesheets[req.id].rejectionReason # Null
  /\ timesheets[req.id].approvedBy = req.actor
  /\ timesheets[req.id].rejectionReason = Null

\* C7: an admin update with status=rejected stores a null approver, a null
\* approval timestamp and a non-null rejection reason for every accepted
\* payload (reason supplied, omitted, or explicitly null).
C7_RejectStoresReason ==
  (IsAdminUpdate /\ "status" \in DOMAIN req.body /\ req.body.status = "rejected") =>
    /\ timesheets[req.id].status = "rejected"
    /\ timesheets[req.id].approvedBy = Null
    /\ timesheets[req.id].approvedAt = NullInt
    /\ timesheets[req.id].rejectionReason # Null

\* C8: when an admin sets a timesheet to rejected and the payload carries no
\* rejection reason, the stored reason is the placeholder string, not null.
C8_RejectWithoutReasonStoresPlaceholder ==
  ( /\ IsAdminUpdate
    /\ "status" \in DOMAIN req.body /\ req.body.status = "rejected"
    /\ "rejectionReason" \notin DOMAIN req.body )
  => /\ timesheets[req.id].rejectionReason = "Rejected by admin."
     /\ timesheets[req.id].rejectionReason # Null
     /\ resp.row.rejectionReason = "Rejected by admin."

\* An admin rejected a pending timesheet with the payload {status: rejected}.
C8_Witness ==
  /\ IsAdminUpdate
  /\ req.body = [status |-> "rejected"]
  /\ before.timesheets[req.id].status = "pending"
  /\ timesheets[req.id].status = "rejected"
  /\ timesheets[req.id].rejectionReason = "Rejected by admin."

\* C9: every successful update by the owning driver of a rejected timesheet
\* leaves it pending with rejection reason, approver and approval timestamp
\* null, whichever fields the payload contains.
C9_DriverEditReopensRejected ==
  ( /\ req.kind = "PATCH" /\ resp.code = 200
    /\ req.actor # NoUser /\ Role(req.actor) = "driver"
    /\ req.id \in DOMAIN before.timesheets
    /\ before.timesheets[req.id].driverId = req.actor
    /\ before.timesheets[req.id].status = "rejected" )
  => /\ timesheets[req.id].status = "pending"
     /\ timesheets[req.id].rejectionReason = Null
     /\ timesheets[req.id].approvedBy = Null
     /\ timesheets[req.id].approvedAt = NullInt

\* The owning driver sent a payload without any driver-editable field to a
\* rejected timesheet, and it is pending again.
C9_Witness ==
  /\ req.kind = "PATCH" /\ resp.code = 200
  /\ Role(req.actor) = "driver"
  /\ req.body = EmptyBody
  /\ before.timesheets[req.id].driverId = req.actor
  /\ before.timesheets[req.id].status = "rejected"
  /\ before.timesheets[req.id].rejectionReason # Null
  /\ timesheets[req.id].status = "pending"
  /\ timesheets[req.id].rejectionReason = Null

\* C10: a driver never updates or deletes another driver's timesheet: every
\* such PATCH (with a body the schema accepts) or DELETE returns 403 and
\* changes no field of the target record and no truck.
C10_DriverCannotTouchOthersTimesheet ==
  ( /\ req.kind \in {"PATCH", "DELETE"}
    /\ req.actor # NoUser /\ Role(req.actor) = "driver"
    /\ req.id \in DOMAIN before.timesheets
    /\ before.timesheets[req.id].driverId # req.actor
    /\ req.kind = "PATCH" => ValidUpdate(req.body) )
  => (resp.code = 403 /\ TablesUnchanged)

\* A driver's edit of another driver's pending timesheet was answered 403.
C10_Witness ==
  /\ req.kind = "PATCH" /\ resp.code = 403
  /\ Role(req.actor) = "driver"
  /\ req.body = [notes |-> "n"]
  /\ req.id \in DOMAIN before.timesheets
  /\ before.timesheets[req.id].driverId \in Drivers \ {req.actor}
  /\ before.timesheets[req.id].status = "pending"
  /\ TablesUnchanged

\* A driver's accepted PATCH on a timesheet the driver owns.
IsOwnDriverUpdate ==
  /\ req.kind = "PATCH"
  /\ req.actor # NoUser /\ Role(req.actor) = "driver"
  /\ ValidUpdate(req.body)
  /\ req.id \in DOMAIN before.timesheets
  /\ before.timesheets[req.id].driverId = req.actor

\* C11: a driver's update of their own timesheet succeeds only while its
\* status is pending or rejected; when the status is approved the request
\* returns 403 and neither the timesheet nor any truck changes.
C11_DriverEditsOnlyPendingOrRejected ==
  IsOwnDriverUpdate =>
    /\ resp.code = 200 => before.timesheets[req.id].status \in {"pending", "rejected"}
    /\ before.timesheets[req.id].status = "approved" =>
         (resp.code = 403 /\ TablesUnchanged)

\* The owning driver tried to change the end-odometer of an approved
\* timesheet and was answered 403.
C11_Witness ==
  /\ IsOwnDriverUpdate
  /\ req.body = [endOdometerReading |-> MaxOdo]
  /\ before.timesheets[req.id].status = "approved"
  /\ resp.code = 403
  /\ TablesUnchanged

\* C12: every timesheet is pending right after its creation, and a change of
\* status to approved or to rejected is made only by an admin's update; a
\* driver's request changes a status only from rejected to pending, and no
\* other request changes a status at all.
C12_StatusChangesOnlyByAdmin ==
  req.kind # "none" =>
    \A i \in DOMAIN timesheets :
      /\ i \notin DOMAIN before.timesheets =>
           (req.kind = "POST" /\ timesheets[i].status = "pending")
      /\ (i \in DOMAIN before.timesheets
          /\ timesheets[i].status # before.timesheets[i].status) =>
           /\ req.kind = "PATCH" /\ req.id = i
           /\ req.actor # NoUser /\ Role(req.actor) \in {"admin", "driver"}
           /\ timesheets[i].status \in {"approved", "rejected"} => Role(req.actor) = "admin"
           /\ Role(req.actor) = "driver" =>
                /\ before.timesheets[i].status = "rejected"
                /\ timesheets[i].status = "pending"

\* The owning driver asked for status approved on a pending timesheet; the
\* request was answered 200 and the timesheet is still pending.
C12_Witness ==
  /\ IsOwnDriverUpdate
  /\ req.body = [status |-> "approved"]
  /\ before.timesheets[req.id].status = "pending"
  /\ resp.code = 200
  /\ timesheets[req.id].status = "pending"
  /\ timesheets[req.id].approvedBy = Null

\* C13: no status is terminal: an admin's update that sets any of the three
\* statuses on an existing timesheet succeeds whatever the current status is,
\* and setting pending stores a null approver, a null approval timestamp and
\* a null rejection reason.
C13_NoStatusIsTerminal ==
  /\ ( /\ req.kind = "PATCH"
       /\ req.actor # NoUser /\ Role(req.actor) = "admin"
       /\ req.id \in DOMAIN before.timesheets
       /\ "status" \in DOMAIN req.body
       /\ DOMAIN req.body \subseteq {"status", "rejectionReason"}
       /\ ValidUpdate(req.body) )
     => /\ resp.code = 200
        /\ timesheets[req.id].status = req.body.status
        /\ resp.row.status = req.body.status
  /\ (IsAdminUpdate /\ "status" \in DOMAIN req.body /\ req.body.status = "pending")
     => /\ timesheets[req.id].status = "pending"
        /\ timesheets[req.id].approvedBy = Null
        /\ timesheets[req.id].approvedAt = NullInt
        /\ timesheets[req.id].rejectionReason = Null

\* An admin reopened an approved timesheet: approver and approval timestamp,
\* set before, are null now.
C13_Witness ==
  /\ IsAdminUpdate
  /\ req.body = [status |-> "pending"]
  /\ before.timesheets[req.id].status = "approved"
  /\ before.timesheets[req.id].approvedBy # Null
  /\ before.timesheets[req.id].approvedAt # NullInt
  /\ timesheets[req.id].status = "pending"
  /\ timesheets[req.id].approvedBy = Null
  /\ timesheets[req.id].approvedAt = NullInt

\* The payload keys the actor's role branch copies into the update.
RoleFilteredFields(actor) ==
  IF Role(actor) = "admin"
  THEN AdminCopiedFields \cup {"shiftStartDate", "shiftEndDate", "status"}
  ELSE {"startOdometerReading", "endOdometerReading", "notes", "truckId",
        "shiftStartDate", "shiftEndDate"}

\* A permitted PATCH whose payload has no key left after role filtering.
IsEmptyFilteredUpdate ==
  /\ req.kind = "PATCH"
  /\ req.actor # NoUser /\ Role(req.actor) \in {"admin", "driver"}
  /\ ValidUpdate(req.body)
  /\ req.id \in DOMAIN before.timesheets
  /\ Role(req.actor) = "driver" =>
       /\ before.timesheets[req.id].driverId = req.actor
       /\ before.timesheets[req.id].status \in {"pending", "rejected"}
  /\ DOMAIN req.body \cap RoleFilteredFields(req.actor) = {}

\* C14: an update whose payload is empty after role filtering returns 200 with
\* the existing record and changes nothing: the timesheet (status, rejection
\* metadata and updated timestamp included) and every truck keep their values,
\* for admin and driver and for every current status.
C14_EmptyPayloadChangesNothing ==
  IsEmptyFilteredUpdate =>
    /\ resp.code = 200
    /\ resp.row = before.timesheets[req.id]
    /\ TablesUnchanged

\* C15: after a successful update whose payload includes an end-odometer, the
\* truck named in the payload (or, when the payload names none, the
\* timesheet's existing truck) has last-odometer-reading equal to that
\* end-odometer, and no other truck's reading changes.
C15_UpdatePropagatesOdometer ==
  (req.kind = "PATCH" /\ resp.code = 200 /\ "endOdometerReading" \in DOMAIN req.body) =>
    LET target == IF "truckId" \in DOMAIN req.body THEN req.body.truckId
                  ELSE before.timesheets[req.id].truckId
    IN /\ DOMAIN trucks = DOMAIN before.trucks
       /\ target \in DOMAIN trucks
       /\ trucks[target].lastOdometerReading = req.body.endOdometerReading
       /\ \A t \in DOMAIN trucks \ {target} :
            trucks[t].lastOdometerReading = before.trucks[t].lastOdometerReading

\* An update moved a timesheet of truck t1 to truck t2 with a new end reading:
\* t2 carries the reading, t1 keeps a different one.
C15_Witness ==
  /\ req.kind = "PATCH" /\ resp.code = 200
  /\ DOMAIN req.body = {"truckId", "endOdometerReading"}
  /\ req.body.truckId = "t2"
  /\ before.timesheets[req.id].truckId = "t1"
  /\ before.trucks["t2"].lastOdometerReading # req.body.endOdometerReading
  /\ trucks["t2"].lastOdometerReading = req.body.endOdometerReading
  /\ trucks["t1"].lastOdometerReading # req.body.endOdometerReading
  /\ trucks["t1"] = before.trucks["t1"]

\* C16: an update by an admin, or by the owning driver of a pending or
\* rejected timesheet, whose payload names a truck that does not exist returns
\* 400 and is rolled back: no field of the timesheet changes and no truck
\* changes, whatever other fields the payload carries.
C16_UpdateUnknownTruckRollsBack ==
  ( /\ req.kind = "PATCH"
    /\ req.actor # NoUser
    /\ ValidUpdate(req.body)
    /\ req.id \in DOMAIN before.timesheets
    /\ \/ Role(req.actor) = "admin"
       \/ /\ Role(req.actor) = "driver"
          /\ before.timesheets[req.id].driverId = req.actor
          /\ before.timesheets[req.id].status \in {"pending", "rejected"}
    /\ "truckId" \in DOMAIN req.body
    /\ req.body.truckId \notin DOMAIN before.trucks )
  => (resp.code = 400 /\ TablesUnchanged)

\* The owning driver moved a timesheet to a truck that had been removed,
\* together with a new end reading: answered 400, nothing written.
C16_Witness ==
  /\ req.kind = "PATCH" /\ resp.code = 400
  /\ Role(req.actor) = "driver"
  /\ DOMAIN req.body = {"truckId", "endOdometerReading"}
  /\ req.body.truckId \notin DOMAIN before.trucks
  /\ before.timesheets[req.id].driverId = req.actor
  /\ before.timesheets[req.id].endOdometerReading # req.body.endOdometerReading
  /\ TablesUnchanged

\* C18: a successful timesheet delete removes exactly the target timesheet and
\* leaves every truck (its last-odometer-reading included) and every other
\* timesheet unchanged; an admin's delete of an id that does not exist returns
\* 404 and changes nothing.
C18_DeleteRemovesOnlyTarget ==
  req.kind = "DELETE" =>
    /\ resp.code = 200 =>
         /\ req.id \in DOMAIN before.timesheets
         /\ DOMAIN timesheets = DOMAIN before.timesheets \ {req.id}
         /\ \A i \in DOMAIN timesheets : timesheets[i] = before.timesheets[i]
         /\ trucks = before.trucks
    /\ ( /\ req.actor # NoUser /\ Role(req.actor) = "admin"
         /\ req.id \notin DOMAIN before.timesheets )
       => (resp.code = 404 /\ TablesUnchanged)

\* One of two timesheets was deleted; the other is still there and the truck
\* still carries the deleted timesheet's end reading.
C18_Witness ==
  /\ req.kind = "DELETE" /\ resp.code = 200
  /\ DOMAIN before.timesheets = {1, 2}
  /\ DOMAIN timesheets = {1, 2} \ {req.id}
  /\ LET gone == before.timesheets[req.id]
     IN /\ trucks[gone.truckId].lastOdometerReading = gone.endOdometerReading
        /\ trucks[gone.truckId].lastOdometerReading # 0
  /\ trucks = before.trucks

\* C19: an admin's delete of a truck that some timesheet references fails
\* with a conflict (409) and leaves the truck and all timesheets in place; an
\* admin's delete of an existing truck that no timesheet references succeeds
\* and removes exactly that truck.
C19_ReferencedTruckCannotBeDeleted ==
  ( /\ req.kind = "DELETE truck"
    /\ req.actor # NoUser /\ Role(req.actor) = "admin"
    /\ req.id \in DOMAIN before.trucks )
  => IF \E i \in DOMAIN before.timesheets : before.timesheets[i].truckId = req.id
     THEN resp.code = 409 /\ TablesUnchanged
     ELSE /\ resp.code = 200
          /\ DOMAIN trucks = DOMAIN before.trucks \ {req.id}
          /\ \A t \in DOMAIN trucks : trucks[t] = before.trucks[t]
          /\ timesheets = before.timesheets

\* An admin tried to delete a truck that a timesheet references: 409, the
\* truck and the timesheet are still there.
C19_Witness ==
  /\ req.kind = "DELETE truck" /\ resp.code = 409
  /\ req.id \in DOMAIN trucks
  /\ \E i \in DOMAIN timesheets : timesheets[i].truckId = req.id
  /\ TablesUnchanged

\* Contents another driver's timesheet may have instead of its own.
ForeignContents ==
  { [notes |-> n, status |-> st, endOdometerReading |-> MaxOdo + 1] :
      n \in {Null, "x"}, st \in Statuses }

\* The timesheets tables that agree with the current one on which ids exist
\* and on the rows of driver d, and differ in the other drivers' rows.
OthersVaried(d) ==
  { [i \in DOMAIN timesheets |->
       IF timesheets[i].driverId = d THEN timesheets[i]
       ELSE Merge(timesheets[i], f[i])] :
    f \in [{i \in DOMAIN timesheets : timesheets[i].driverId # d} -> ForeignContents] }

IsDriverRead ==
  /\ req.kind \in {"GET", "GET list"}
  /\ req.actor # NoUser /\ Role(req.actor) = "driver"

\* C20: no read response to a driver contains a timesheet owned by another
\* driver: the list returns exactly the timesheets whose driver is the actor,
\* get-by-id of another driver's timesheet returns 403 without a record, and
\* the response to a driver is the same whatever the other drivers'
\* timesheets contain.
C20_DriverReadsOnlyOwnTimesheets ==
  IsDriverRead =>
    LET own == {i \in DOMAIN timesheets : timesheets[i].driverId = req.actor}
    IN /\ req.kind = "GET list" =>
            /\ resp.code = 200
            /\ Len(resp.row) = Cardinality(own)
            /\ \A k \in 1..Len(resp.row) : resp.row[k].driverId = req.actor
            /\ {resp.row[k] : k \in 1..Len(resp.row)}
                 = {WithRelations(timesheets[i], FALSE) : i \in own}
            /\ \A alt \in OthersVaried(req.actor) : ListResponse(req.actor, alt) = resp
       /\ req.kind = "GET" =>
            /\ (req.id \in DOMAIN timesheets \ own) =>
                 (resp.code = 403 /\ resp.row = EmptyBody)
            /\ resp.code = 200 => (req.id \in own /\ resp.row.driverId = req.actor)
            /\ \A alt \in OthersVaried(req.actor) :
                 GetResponse(req.actor, req.id, alt) = resp

\* A driver listed timesheets while both drivers have one: the response holds
\* the driver's own timesheet only.
C20_Witness ==
  /\ req.kind = "GET list" /\ resp.code = 200
  /\ Role(req.actor) = "driver"
  /\ \E i, j \in DOMAIN timesheets :
       /\ timesheets[i].driverId = req.actor
       /\ timesheets[j].driverId \in Drivers \ {req.actor}
       /\ timesheets[j].status # "pending"
  /\ Len(resp.row) = 1
  /\ resp.row[1].driverId = req.actor

\* C17: the timesheet write and the truck-odometer write of one create or
\* update request take effect together or not at all: while the transaction
\* is in flight the tables other requests read are as the transaction found
\* them, a successful request leaves both writes in place, and a request in
\* which the truck lookup or either write fails leaves both tables unchanged.
C17_WritesTakeEffectTogether ==
  /\ tx.pc # "none" =>
       (timesheets = tx.start.timesheets /\ trucks = tx.start.trucks)
  /\ req.kind = "POST" =>
       IF resp.code = 201
       THEN /\ \E i \in DOMAIN timesheets \ DOMAIN before.timesheets :
                 timesheets[i] = resp.row
            /\ trucks[req.body.truckId].lastOdometerReading = req.body.endOdometerReading
       ELSE TablesUnchanged
  /\ req.kind = "PATCH" =>
       IF resp.code = 200
       THEN /\ timesheets[req.id] = resp.row
            /\ IF "endOdometerReading" \in DOMAIN req.body
               THEN trucks[resp.row.truckId].lastOdometerReading
                      = req.body.endOdometerReading
               ELSE trucks = before.trucks
       ELSE TablesUnchanged

\* A driver lists timesheets while the driver's own create has inserted its
\* timesheet and not yet updated the truck: the list is still empty and the
\* truck still has its old reading.
C17_Witness ==
  /\ tx.pc = "truck"
  /\ tx.req.kind = "POST" /\ tx.req.actor = "d1"
  /\ DOMAIN tx.timesheets # {}
  /\ req.kind = "GET list" /\ req.actor = "d1"
  /\ resp.code = 200 /\ Len(resp.row) = 0
  /\ trucks = tx.start.trucks
  /\ trucks[tx.req.body.truckId].lastOdometerReading # tx.req.body.endOdometerReading


\* ------------------------------------------------- requests with no session
\* Corrections of the two readings, sent one at a time or together.
ReadingBodies ==
  Field("startOdometerReading", Odo) \cup Field("endOdometerReading", Odo)
  \cup { a @@ e : a \in Field("startOdometerReading", Odo),
                  e \in Field("endOdometerReading", Odo) }

\* Corrections of one end of the shift.
ShiftDateBodies ==
  Field("shiftStartDate", ShiftSeconds) \cup Field("shiftEndDate", ShiftSeconds)

SessionActors == {NoUser, "d1"}

\* Every timesheet endpoint called with and without a session, with bodies
\* the schemas accept and bodies they refuse.
NextSession ==
  \/ Create(SessionActors, CreateBodies)
  \/ Update(SessionActors, ReadingBodies \cup ShiftDateBodies)
  \/ Delete(SessionActors)
  \/ List(SessionActors)
  \/ Get(SessionActors)
  \/ Deliver

SpecSession == Init /\ [][NextSession]_vars

\* A request to one of the five timesheet endpoints.
IsTimesheetRequest == req.kind \in {"POST", "GET list", "GET", "PATCH", "DELETE"}

\* C21: a request without an authenticated actor to any timesheet endpoint
\* (POST, GET list, GET by id, PATCH, DELETE) is answered 401 and changes no
\* state, whatever its body, its id and the content of the tables.
C21_NoSessionAlways401 ==
  (IsTimesheetRequest /\ req.actor = NoUser /\ ~Idle) =>
    resp.code = 401 /\ TablesUnchanged

\* An authenticated request with a schema-valid body whose actor's role the
\* endpoint does not serve: maintenance on every timesheet endpoint, and
\* every role but admin on DELETE.
IsRoleMismatch ==
  /\ IsTimesheetRequest
  /\ req.actor # NoUser
  /\ req.kind = "POST" => ValidCreate(req.body)
  /\ req.kind = "PATCH" => ValidUpdate(req.body)
  /\ IF req.kind = "DELETE" THEN Role(req.actor) # "admin"
     ELSE Role(req.actor) = "maintenance"

\* C22: an authenticated actor whose role is not permitted for a timesheet
\* operation (maintenance on GET by id or PATCH, non-admin on DELETE) is
\* answered 403 and no state changes, also when the target id does not exist.
C22_RoleMismatchAlways403 ==
  (IsRoleMismatch /\ ~Idle) => resp.code = 403 /\ TablesUnchanged

\* C23: in every reachable state every stored timesheet that has both
\* odometer readings has end-odometer greater than start-odometer, and every
\* stored timesheet that has a shift-end has shift-end later than shift-start,
\* also after updates that supply only one of the two compared fields.
C23_StoredOrderingHolds ==
  \A i \in DOMAIN timesheets :
    /\ (timesheets[i].startOdometerReading # NullInt
        /\ timesheets[i].endOdometerReading # NullInt) =>
         timesheets[i].endOdometerReading > timesheets[i].startOdometerReading
    /\ timesheets[i].shiftEndDate # NullInt =>
         timesheets[i].shiftEndDate > timesheets[i].shiftStartDate

\* --------------------------------------------- payloads with foreign fields
\* Bodies that carry fields only the admin branch copies; the last one also
\* carries a note.
PrivilegedBodies ==
  { [status |-> "rejected"],
    [status |-> "approved", approvedBy |-> "d1", billingRateId |-> "b1"],
    [status |-> "approved", rejectionReason |-> "r", billingRateId |-> "b1",
     totalBilledAmount |-> 1, notes |-> "n"] }

\* Bodies that name another driver as the owner (a key neither schema keeps).
OwnerBodies == { [driverId |-> "d2", notes |-> "m"] }

\* One shift for truck t1, sent as is and with another driver named as owner.
OwnedShiftBodies ==
  { b \in ShiftBodies : b.truckId = "t1" }
  \cup { b @@ [driverId |-> "d2"] : b \in { c \in ShiftBodies : c.truckId = "t1" } }

PrivilegeActors == {"d1", "a1"}

\* A driver and an admin submit shifts and send updates that carry fields
\* the handler is not meant to take from them.
NextPrivilege ==
  \/ Create(PrivilegeActors, OwnedShiftBodies)
  \/ Update(PrivilegeActors, PrivilegedBodies \cup OwnerBodies)
  \/ Deliver

SpecPrivilege == Init /\ [][NextPrivilege]_vars

\* A driver's PATCH that was answered 200 for a stored timesheet.
IsDriverUpdateApplied ==
  /\ ~Idle
  /\ req.kind = "PATCH"
  /\ req.actor \in Drivers
  /\ resp.code = 200
  /\ req.id \in DOMAIN before.timesheets

DriverEditableFields ==
  {"truckId", "shiftStartDate", "shiftEndDate", "startOdometerReading",
   "endOdometerReading", "notes"}

ReviewFields == {"status", "approvedBy", "approvedAt", "rejectionReason"}

\* What a review field holds once a rejected timesheet is back to pending.
ReopenedValue(k) ==
  IF k = "status" THEN "pending" ELSE IF k = "approvedAt" THEN NullInt ELSE Null

\* C25: a driver's update changes at most truck reference, shift-start,
\* shift-end, start-odometer, end-odometer and notes, plus the
\* rejected-to-pending reset and the updated timestamp: a status, approver,
\* approval timestamp, rejection reason, billing-rate or total-billed value in
\* the payload is ignored and the stored values are not set from it.
C25_DriverPayloadIsFiltered ==
  IsDriverUpdateApplied =>
    \A k \in DOMAIN timesheets[req.id] \ (DriverEditableFields \cup {"updatedAt"}) :
      timesheets[req.id][k] =
        IF k \in ReviewFields /\ before.timesheets[req.id].status = "rejected"
        THEN ReopenedValue(k)
        ELSE before.timesheets[req.id][k]

C25_Witness ==
  /\ IsDriverUpdateApplied
  /\ {"status", "rejectionReason", "billingRateId", "totalBilledAmount", "notes"}
       \subseteq DOMAIN req.body
  /\ before.timesheets[req.id].status = "pending"
  /\ before.timesheets[req.id].notes # "n"
  /\ timesheets[req.id].notes = "n"
  /\ timesheets[req.id].status = "pending"
  /\ timesheets[req.id].billingRateId = Null
  /\ timesheets[req.id].totalBilledAmount = NullInt

\* C28: a timesheet's driver reference equals the id of the actor who created
\* it (never a value taken from the request body) and never changes
\* afterwards: no update by a driver or an admin alters the driver reference
\* or the identifier of a stored timesheet.
C28_DriverReferenceIsCreatorForever ==
  /\ (~Idle /\ req.kind = "POST" /\ resp.code = 201) =>
       /\ DOMAIN timesheets = DOMAIN before.timesheets \cup {nextId}
       /\ nextId \notin DOMAIN before.timesheets
       /\ timesheets[nextId].driverId = req.actor
       /\ resp.row.driverId = req.actor
  /\ (~Idle /\ req.kind = "PATCH") =>
       /\ DOMAIN timesheets = DOMAIN before.timesheets
       /\ \A i \in DOMAIN timesheets :
            timesheets[i].driverId = before.timesheets[i].driverId

C28_Witness ==
  /\ ~Idle
  /\ req.kind = "PATCH"
  /\ req.actor = "a1"
  /\ resp.code = 200
  /\ "driverId" \in DOMAIN req.body
  /\ req.body.driverId # before.timesheets[req.id].driverId
  /\ timesheets[req.id].notes = req.body.notes
  /\ before.timesheets[req.id].notes # req.body.notes
  /\ timesheets[req.id].driverId = "a1"

\* ------------------------------------------------------ concurrent requests
\* Shifts for truck t1 that start at reading 0 and end at the lowest or the
\* highest reading.
RaceShiftBodies ==
  { [truckId |-> "t1", shiftStartDate |-> 1, shiftEndDate |-> 2,
     startOdometerReading |-> 0, endOdometerReading |-> eo] : eo \in {1, MaxOdo} }

\* Two notes, and an approval.
RaceBodies == Field("notes", {"n", "m"}) \cup { [status |-> "approved"] }

RaceActors == {"d1", "a1"}

\* A second request may run from start to end while the first one has been
\* received and its transaction has not yet issued its first statement; it
\* leaves the first one room below the bounds.
BeforeFirstStatement ==
  \/ tx.pc = "none"
  \/ tx.pc = "find" /\ now + 1 < MaxNow
  \/ tx.pc = "lookup" /\ now + 1 < MaxNow /\ nextId + 1 < MaxTimesheets

\* Two requests at a time: one whose transaction runs statement by statement
\* and one that is served in between.
NextRace ==
  \/ \E actor \in RaceActors, body \in RaceShiftBodies : BeginCreate(actor, body)
  \/ \E actor \in RaceActors, id \in TimesheetIds, body \in RaceBodies :
       BeginUpdate(actor, id, body)
  \/ TxLookup
  \/ TxInsert
  \/ TxFind
  \/ TxWrite
  \/ TxTruck
  \/ TxCommit
  \/ BeforeFirstStatement /\ Create(RaceActors, RaceShiftBodies)
  \/ BeforeFirstStatement /\ Update(RaceActors, RaceBodies)
  \/ Deliver

SpecRace == Init /\ [][NextRace]_vars

\* No stored timesheet was edited since it was created.
NeverEdited ==
  \A i \in DOMAIN timesheets : timesheets[i].updatedAt = timesheets[i].createdAt

\* The timesheets that reference truck t, and the most recently created one.
TimesheetsOf(t) == { i \in DOMAIN timesheets : timesheets[i].truckId = t }
LatestOf(t) == CHOOSE i \in TimesheetsOf(t) : \A j \in TimesheetsOf(t) : j <= i

\* C24: after any sequence of successful creates, sequential or concurrent,
\* with no edits or deletes, each truck's last-odometer-reading equals the
\* end-odometer of the most recently created timesheet that references it.
C24_LatestCreateSetsReading ==
  NeverEdited =>
    \A t \in DOMAIN trucks :
      TimesheetsOf(t) # {} =>
        trucks[t].lastOdometerReading = timesheets[LatestOf(t)].endOdometerReading

C24_Witness ==
  /\ ~Idle
  /\ req.kind = "POST"
  /\ resp.code = 201
  /\ before.timesheets = <<>>
  /\ DOMAIN timesheets = {1, 2}
  /\ NeverEdited
  /\ timesheets[1].truckId = "t1" /\ timesheets[2].truckId = "t1"
  /\ timesheets[2].endOdometerReading < timesheets[1].endOdometerReading
  /\ trucks["t1"].lastOdometerReading = timesheets[2].endOdometerReading

\* One step of a PATCH transaction: its UPDATE is not refused, and its commit
\* stores the request's value in every field the request writes and leaves
\* the other fields as the last commit left them.
C26_Step ==
  /\ (tx.pc = "write" /\ tx.req.kind = "PATCH" /\ tx' # tx) =>
       tx'.pc \in {"truck", "commit"}
  /\ (tx.pc = "commit" /\ tx.req.kind = "PATCH" /\ tx'.pc = "none") =>
       /\ resp'.code = 200
       /\ \A k \in DOMAIN tx.req.body \cap DOMAIN tx.payload :
            timesheets'[tx.req.id][k] = tx.req.body[k]
       /\ \A k \in DOMAIN timesheets[tx.req.id] \ (DOMAIN tx.payload \cup {"updatedAt"}) :
            timesheets'[tx.req.id][k] = timesheets[tx.req.id][k]

\* C26: when two updates of the same timesheet by two actors run
\* concurrently, neither is rejected for staleness (there is no version
\* check) and the result is last-write-wins: each field written by both holds
\* the value of the update that committed last.
C26_LastWriteWins == [][C26_Step]_vars

\* The second update is about to commit over the first one's value: the
\* first one was served after the second one arrived and wrote another note.
C26_Witness ==
  /\ tx.pc = "commit"
  /\ tx.req.kind = "PATCH"
  /\ req.kind = "PATCH"
  /\ req.id = tx.req.id
  /\ req.actor # tx.req.actor
  /\ resp.code = 200
  /\ "notes" \in DOMAIN req.body \cap DOMAIN tx.req.body
  /\ req.body.notes # tx.req.body.notes
  /\ tx.req.id \in DOMAIN tx.start.timesheets
  /\ tx.start.timesheets[tx.req.id].notes # req.body.notes
  /\ timesheets[tx.req.id].notes = req.body.notes
  /\ tx.timesheets[tx.req.id].notes = tx.req.body.notes

\* C27: under every interleaving of a driver's update with an admin's approval
\* of the same timesheet, the driver's status check and write act as one
\* atomic step: no execution ends with an approved timesheet whose fields
\* were written by a driver request that committed after the approval.
C27_DriverNeverWritesApproved ==
  IsDriverUpdateApplied => timesheets[req.id].status # "approved"

\* The approval was served after the driver's request arrived: the driver's
\* transaction finds the timesheet approved and is refused.
C27_Witness ==
  /\ ~Idle
  /\ req.kind = "PATCH"
  /\ req.actor \in Drivers
  /\ "notes" \in DOMAIN req.body
  /\ resp.code = 403
  /\ req.id \in DOMAIN before.timesheets
  /\ before.timesheets[req.id].driverId = req.actor
  /\ before.timesheets[req.id].status = "pending"
  /\ timesheets[req.id].status = "approved"
  /\ timesheets[req.id].notes = before.timesheets[req.id].notes

\* C29: in every reachable state, under any interleaving of timesheet create,
\* timesheet update (a change of truck included) and truck delete, every
\* stored timesheet's truck reference names a truck in the truck registry.
C29_TruckReferenceAlwaysValid ==
  \A i \in DOMAIN timesheets : timesheets[i].truckId \in DOMAIN trucks

\* A truck was removed while timesheets exist: they had been moved to or
\* created for the other truck.
C29_Witness ==
  /\ ~Idle
  /\ req.kind = "DELETE truck"
  /\ resp.code = 200
  /\ req.id \notin DOMAIN trucks
  /\ DOMAIN timesheets # {}
  /\ \E i \in DOMAIN timesheets : i \in DOMAIN before.timesheets

\* ------------------------------------------------- PATCH /api/trucks/:id
\* A row of the trucks table with every column the update schema names
\* (column defaults: readings 0, maintenance interval 10000).
TruckRow(unit) ==
  [ unitNumber |-> unit, make |-> Null, model |-> Null, serialNumber |-> Null,
    lastOdometerReading |-> 0, lastMaintenanceOdometerReading |-> 0,
    maintenanceIntervalKm |-> 10000, updatedAt |-> 0 ]

\* truckUpdateSchema: every key optional; unitNumber min(1), the readings
\* int().min(0) or null, maintenanceIntervalKm int().positive().
ValidTruckUpdate(body) ==
  /\ Has(body, "unitNumber") => body.unitNumber # ""
  /\ Has(body, "lastOdometerReading") =>
       (body.lastOdometerReading = NullInt \/ body.lastOdometerReading >= 0)
  /\ Has(body, "lastMaintenanceOdometerReading") =>
       (body.lastMaintenanceOdometerReading = NullInt
        \/ body.lastMaintenanceOdometerReading >= 0)
  /\ Has(body, "maintenanceIntervalKm") => body.maintenanceIntervalKm > 0

\* Variant: the maintenance role's payload is not restricted.
MaintenanceRestNone(body) == {}

\* const { lastMaintenanceOdometerReading, ...rest } = validJson
MaintenanceRest(body) == DOMAIN body \ {"lastMaintenanceOdometerReading"}

\* unit_number and serial_number are unique: the UPDATE fails when another
\* truck holds the payload's value.
TruckUniqueConflict(id, body) ==
  \E t \in DOMAIN trucks \ {id} :
    \/ Has(body, "unitNumber") /\ trucks[t].unitNumber = body.unitNumber
    \/ /\ Has(body, "serialNumber") /\ body.serialNumber # Null
       /\ trucks[t].serialNumber = body.serialNumber

UpdateTruck(actor, id, body) ==
  /\ Idle
  /\ UNCHANGED tx
  /\ before' = Snapshot
  /\ req' = [kind |-> "PATCH truck", actor |-> actor, id |-> id, body |-> body]
  /\ IF ~ValidTruckUpdate(body)
     THEN Reply(400, ValidationError, EmptyBody) /\ UNCHANGED db
     ELSE IF actor = NoUser
     THEN Reply(401, "Unauthorized", EmptyBody) /\ UNCHANGED db
     ELSE IF Role(actor) # "admin" /\ Role(actor) # "maintenance"
     THEN Reply(403, "Forbidden", EmptyBody) /\ UNCHANGED db
     ELSE IF Role(actor) = "maintenance" /\ MaintenanceRest(body) # {}
     THEN /\ Reply(403, "Maintenance role can only update maintenance-related fields",
                   EmptyBody)
          /\ UNCHANGED db
     ELSE IF Role(actor) = "maintenance" /\ ~Has(body, "lastMaintenanceOdometerReading")
     THEN Reply(400, "No maintenance fields provided to update", EmptyBody)
          /\ UNCHANGED db
     ELSE IF ~TruckExists(id)
     THEN Reply(404, "Truck not found", EmptyBody) /\ UNCHANGED db
     ELSE IF TruckUniqueConflict(id, body)
     THEN /\ Reply(409, "Update failed: unit number or serial number conflict", EmptyBody)
          /\ UNCHANGED db
     ELSE LET written == Merge(trucks[id], Merge(body, [updatedAt |-> NewDate]))
          IN /\ now < MaxNow
             /\ trucks' = [trucks EXCEPT ![id] = written]
             /\ now' = now + 1
             /\ UNCHANGED <<timesheets, nextId>>
             /\ Reply(200, "", written)

\* JSON bodies sent to PATCH /api/trucks/:id: each field alone, the
\* maintenance reading with another field, and the empty body.
TruckBodies ==
  Field("lastMaintenanceOdometerReading", {-1, NullInt, MaxOdo})
  \cup Field("unitNumber", {"", "u2", "u3"})
  \cup Field("make", {"mk"}) \cup Field("model", {"md"})
  \cup Field("serialNumber", {"s1"})
  \cup Field("lastOdometerReading", {MaxOdo})
  \cup Field("maintenanceIntervalKm", {0, 5000})
  \cup { [lastMaintenanceOdometerReading |-> MaxOdo, make |-> "mk"], EmptyBody }

\* Two registered trucks with the column defaults; no timesheets.
InitGarage ==
  /\ trucks = [t \in TruckIds |-> TruckRow(IF t = "t1" THEN "u1" ELSE "u2")]
  /\ timesheets = <<>>
  /\ nextId = 0
  /\ now = 1
  /\ req = NoRequest
  /\ resp = NoResponse
  /\ before = NoSnapshot
  /\ tx = NoTx

GarageActors == {NoUser, "d1", "a1", "m1"}

\* The truck registry: trucks are updated by every kind of actor and removed.
NextGarage ==
  \/ \E actor \in GarageActors, id \in TruckIds, body \in TruckBodies :
       UpdateTruck(actor, id, body)
  \/ RemoveTruck(GarageActors)
  \/ Deliver

SpecGarage == InitGarage /\ [][NextGarage]_vars

\* A maintenance actor's PATCH of a truck with a schema-valid body.
IsMaintenanceTruckUpdate ==
  /\ ~Idle
  /\ req.kind = "PATCH truck"
  /\ req.actor \in Maintainers
  /\ ValidTruckUpdate(req.body)

AdminOnlyTruckFields ==
  {"unitNumber", "make", "model", "serialNumber", "lastOdometerReading",
   "maintenanceIntervalKm"}

\* C30: a truck update by a maintenance-role actor succeeds only when the
\* payload contains lastMaintenanceOdometerReading and no other field; a
\* payload with any other field returns 403 and a payload without the
\* maintenance field returns 400, both leaving the truck unchanged and both
\* decided before the truck's existence is checked, so a maintenance actor
\* never changes a truck's unit number, make, model, serial number,
\* last-odometer-reading or maintenance interval.
C30_MaintenanceUpdatesOnlyMaintenanceReading ==
  IsMaintenanceTruckUpdate =>
    /\ DOMAIN req.body \ {"lastMaintenanceOdometerReading"} # {} =>
         resp.code = 403 /\ TablesUnchanged
    /\ DOMAIN req.body = {} => resp.code = 400 /\ TablesUnchanged
    /\ resp.code = 200 => DOMAIN req.body = {"lastMaintenanceOdometerReading"}
    /\ DOMAIN trucks = DOMAIN before.trucks
    /\ \A t \in DOMAIN trucks : \A k \in AdminOnlyTruckFields :
         trucks[t][k] = before.trucks[t][k]

C30_Witness ==
  /\ IsMaintenanceTruckUpdate
  /\ resp.code = 200
  /\ req.id \in DOMAIN before.trucks
  /\ before.trucks[req.id].make # Null
  /\ before.trucks[req.id].lastMaintenanceOdometerReading # MaxOdo
  /\ trucks[req.id].lastMaintenanceOdometerReading = MaxOdo
  /\ trucks[req.id].make = before.trucks[req.id].make
====
